---- MODULE Spec2Model ----
(***************************************************************************)
(* Asset retrieval and on-disk asset cache of the Immich hub               *)
(* (custom_components/immich/hub.py): download_asset, load_cached_asset,   *)
(* cache_album_assets and initialize_asset_cache.                          *)
(*                                                                         *)
(* Every await of the coroutines is a step of its own, so that calls can   *)
(* be interleaved at exactly the points where the event loop (and the      *)
(* executor threads aiofiles uses) can interleave them.                    *)
(***************************************************************************)
EXTENDS Integers, Sequences, FiniteSets, TLC

\* ------------------------------------------------------------------------
\* Bounds and input domains
\* ------------------------------------------------------------------------

\* longest album_assets list handed to one cache_album_assets call
MaxWarmLen == 3

AssetIds == {"A", "B"}

\* response bodies / file contents; b"" and a body with a proper prefix
Bodies == {<< >>, <<7>>, <<7, 9>>}

Statuses == {200, 404}

ContentTypes == {"image/png", "image/jpeg", "application/pdf"}

\* what session.get / response.read can raise: subclasses of
\* aiohttp.ClientError, and asyncio.TimeoutError (the total timeout of the
\* ClientSession), which is not a ClientError
TransportErrors == {"ClientConnectorError", "ClientPayloadError", "TimeoutError"}

\* the coroutines that can be in flight; Spec runs them one call at a time
Tasks == {"t1", "t2"}

SeqTasks == {"t1"}

\* album_assets: any list of at most MaxWarmLen ids, repetitions included
AlbumLists == UNION {[1..n -> AssetIds] : n \in 0..MaxWarmLen}

\* longest album_assets list of a call made while the directory can vanish
MaxEnvLen == 2

\* longest album_assets list of a call that runs concurrently with another
MaxConcLen == 1

\* the ids concurrent calls compete for
ConcIds == {"A"}

ConcLists == UNION {[1..n -> ConcIds] : n \in 0..MaxConcLen}

\* ------------------------------------------------------------------------
\* Values
\* ------------------------------------------------------------------------

\* Python's None and a bytes object, as results of the coroutines
None == [some |-> FALSE, data |-> << >>]

Bytes(b) == [some |-> TRUE, data |-> b]

\* `if asset_bytes:` -- None and b"" are both falsy
Truthy(v) == v.some /\ Len(v.data) > 0

\* a path below asset_cache_path that is not a regular file
\* whole: the file holds all the bytes of one response body, as read or as
\* handed on by a reader of a whole file
NoFile == [exists |-> FALSE, data |-> << >>, prior |-> FALSE, whole |-> FALSE]

File(b) == [exists |-> TRUE, data |-> b, prior |-> FALSE, whole |-> TRUE]

\* open(filename, "wb"): the file is there and has no bytes yet
EmptyFile == [exists |-> TRUE, data |-> << >>, prior |-> FALSE, whole |-> FALSE]

Max(a, b) == IF a > b THEN a ELSE b

\* the bytes of a file with bytes d after a handle at offset off has written c
WriteAt(d, off, c) ==
    [k \in 1..Max(Len(d), off + Len(c)) |->
        IF k > off /\ k <= off + Len(c) THEN c[k - off]
        ELSE IF k <= Len(d) THEN d[k] ELSE 0]

NoResp == [status |-> 0, content_type |-> ""]

\* a gate that lets every content type of the domain through
ALLOWED_MIME_TYPES_any == {"image/png", "image/jpeg", "application/pdf"}

ALLOWED_MIME_TYPES == {"image/png", "image/jpeg"}

IsClientError(e) == e \in {"ClientConnectorError", "ClientPayloadError"}

\* except aiohttp.ClientError: raise CannotConnect; anything else propagates
Raised(e) == IF IsClientError(e) THEN "CannotConnect" ELSE e

Prefixes(b) == {SubSeq(b, 1, n) : n \in 0..Len(b)}

StrictPrefixes(b) == Prefixes(b) \ {b}

\* ------------------------------------------------------------------------
\* State
\* ------------------------------------------------------------------------
VARIABLES
    initialized,    \* initialize_asset_cache has run (the attributes exist)
    cache_assets,   \* self.cache_assets
    dirExists,      \* os.path.isdir(self.asset_cache_path)
    files,          \* the regular files below asset_cache_path, by asset id
    clearFailed,    \* "Unable to clear asset cache directory" was logged
    createFailed,   \* "Unable to create asset cache directory" was logged
    hadPrior,       \* the directory held entries when initialize_asset_cache was called
    task            \* per coroutine: its position and locals

vars == <<initialized, cache_assets, dirExists, files, clearFailed, createFailed, hadPrior, task>>

NoFiles == [a \in AssetIds |-> NoFile]

NoLog == [a \in AssetIds |-> None]

IdleTask ==
    [op |-> "none", pc |-> "idle", ids |-> << >>, i |-> 0, asset_id |-> "",
     lookup |-> "none", stale |-> FALSE, cached |-> None,
     resp |-> NoResp, body |-> None, exc |-> "none",
     asset_bytes |-> None, result |-> None, raised |-> "none",
     reqlog |-> << >>, fetched |-> NoLog, files0 |-> NoFiles, out |-> << >>,
     whole |-> FALSE, off |-> 0]

Init ==
    /\ initialized = FALSE
    /\ cache_assets = FALSE
    /\ dirExists = FALSE
    /\ files = NoFiles
    /\ clearFailed = FALSE
    /\ createFailed = FALSE
    /\ hadPrior = FALSE
    /\ task = [t \in Tasks |-> IdleTask]

InFlight(t) == task[t].pc \notin {"idle", "done"}

\* ------------------------------------------------------------------------
\* initialize_asset_cache (hub.py 160-176); runs once, at the start of a
\* session, before the session's download_asset / cache_album_assets calls
\* ------------------------------------------------------------------------

\* an initialize_asset_cache that leaves an existing directory alone
rmtree_skipped ==
    {[dir |-> dirExists,
      files |-> [a \in AssetIds |->
                   IF files[a].exists THEN [files[a] EXCEPT !.prior = TRUE] ELSE NoFile],
      failed |-> FALSE]}

\* 164-169: shutil.rmtree of an existing directory removes it with all its
\* entries, or raises, which is logged: then the directory is still there,
\* with any part of its entries (all of them from an earlier session)
rmtree ==
    IF dirExists
      THEN {[dir |-> FALSE, files |-> NoFiles, failed |-> FALSE]} \cup
           {[dir |-> TRUE,
             files |-> [a \in AssetIds |->
                          IF a \in keep THEN [files[a] EXCEPT !.prior = TRUE] ELSE NoFile],
             failed |-> TRUE] :
                keep \in SUBSET {a \in AssetIds : files[a].exists}}
      ELSE {[dir |-> FALSE, files |-> files, failed |-> FALSE]}

\* an initialize_asset_cache without the `if self.cache_assets:` of line 171
makedirs_always(enabled, dir) ==
    IF ~dir
      THEN {[dir |-> TRUE, failed |-> FALSE], [dir |-> FALSE, failed |-> TRUE]}
      ELSE {[dir |-> dir, failed |-> FALSE]}

\* 171-176: os.makedirs(exist_ok=True) when caching is on; a failure is logged
makedirs(enabled, dir) ==
    IF enabled /\ ~dir
      THEN {[dir |-> TRUE, failed |-> FALSE], [dir |-> FALSE, failed |-> TRUE]}
      ELSE {[dir |-> dir, failed |-> FALSE]}

initialize_asset_cache ==
    /\ \A t \in Tasks : ~InFlight(t)
    /\ initialized' = TRUE
    /\ hadPrior' = (dirExists /\ \E a \in AssetIds : files[a].exists)
    /\ \E enabled \in BOOLEAN :
        \E c \in rmtree :
          \E m \in makedirs(enabled, c.dir) :
            /\ cache_assets' = enabled
            /\ files' = c.files
            /\ clearFailed' = c.failed
            /\ dirExists' = m.dir
            /\ createFailed' = m.failed
    /\ task' = [t \in Tasks |-> IdleTask]

\* ------------------------------------------------------------------------
\* Steps of a coroutine
\* ------------------------------------------------------------------------

Step(t, r) == task' = [task EXCEPT ![t] = r]

\* how the loop body of cache_album_assets ended for one position of
\* album_assets: "skip" (150: the file is there), "nofetch" (152: nothing to
\* store), "wfail" (157-158: open or write raised), "stored" (156)
Outcome(r, o) == [r EXCEPT !.out = Append(@, o)]

\* for asset_id in album_assets: on to the next id, or the end of the call
NextId(r) ==
    IF r.i + 1 > Len(r.ids)
      THEN [r EXCEPT !.pc = "done", !.i = r.i + 1, !.asset_id = "", !.lookup = "none",
                     !.stale = FALSE, !.cached = None, !.resp = NoResp, !.body = None,
                     !.asset_bytes = None, !.whole = FALSE]
      ELSE [r EXCEPT !.pc = "w_isfile", !.i = r.i + 1]

\* a download_asset that ends in `return asset_bytes or None`
AfterDownload_orNone(r, v) ==
    IF r.op = "get"
      THEN [r EXCEPT !.pc = "done", !.asset_bytes = v,
                     !.result = IF Truthy(v) THEN v ELSE None]
      ELSE IF Truthy(v)
             THEN [r EXCEPT !.pc = "w_open", !.asset_bytes = v]
             ELSE NextId(Outcome([r EXCEPT !.asset_bytes = v,
                                           !.fetched[r.asset_id] =
                                               IF r.resp # NoResp /\ v.some THEN v ELSE @],
                                 "nofetch"))

\* download_asset returns v: to the caller (107, 120, 126, 128), or to
\* cache_album_assets line 151-152
AfterDownload(r, v) ==
    IF r.op = "get"
      THEN [r EXCEPT !.pc = "done", !.asset_bytes = v, !.result = v]
      ELSE IF Truthy(v)
             THEN [r EXCEPT !.pc = "w_open", !.asset_bytes = v]
             ELSE NextId(Outcome([r EXCEPT !.asset_bytes = v,
                                           !.fetched[r.asset_id] =
                                               IF r.resp # NoResp /\ v.some THEN v ELSE @],
                                 "nofetch"))

\* download_asset raises e: nothing in cache_album_assets catches it
AfterRaise(r, e) == [r EXCEPT !.pc = "done", !.raised = e, !.fetched = NoLog]

\* a new call: fresh locals; fetched is kept for the session (what the
\* cache_album_assets calls that returned have fetched and stored, per id)
NewCall(t) == [IdleTask EXCEPT !.fetched = task[t].fetched, !.files0 = files]

\* line 106: a truthy cached value is returned, anything else goes on to
\* the request
AfterLookup(r, how, v) ==
    IF Truthy(v)
      THEN AfterDownload([r EXCEPT !.lookup = how, !.cached = v], v)
      ELSE [r EXCEPT !.pc = "dl_request", !.lookup = how, !.cached = v]

\* a caller awaits download_asset(asset_id) (102-105)
download_asset(t) ==
    /\ initialized /\ ~InFlight(t)
    /\ \E a \in AssetIds :
        Step(t, [NewCall(t) EXCEPT !.op = "get", !.pc = "load_isfile", !.asset_id = a])
    /\ UNCHANGED <<initialized, cache_assets, dirExists, files, clearFailed, createFailed, hadPrior>>

\* a cache_album_assets without the `if self.cache_assets` of line 147
cache_album_assets_unguarded(t) ==
    /\ initialized /\ ~InFlight(t)
    /\ \E album_assets \in AlbumLists :
        Step(t, NextId([NewCall(t) EXCEPT !.op = "warm", !.ids = album_assets]))
    /\ UNCHANGED <<initialized, cache_assets, dirExists, files, clearFailed, createFailed, hadPrior>>

\* a caller awaits cache_album_assets(album_assets) (144-148)
cache_album_assets(t) ==
    /\ initialized /\ ~InFlight(t)
    /\ \E album_assets \in AlbumLists :
        LET r == [NewCall(t) EXCEPT !.op = "warm", !.ids = album_assets]
        IN  Step(t, IF cache_assets THEN NextId(r) ELSE [r EXCEPT !.pc = "done"])
    /\ UNCHANGED <<initialized, cache_assets, dirExists, files, clearFailed, createFailed, hadPrior>>

\* a loop body without the os.path.isfile test of line 150
cache_album_assets_nocheck(t) ==
    /\ task[t].pc = "w_isfile"
    /\ Step(t, [task[t] EXCEPT !.asset_id = task[t].ids[task[t].i],
                               !.lookup = "none", !.stale = FALSE, !.cached = None,
                               !.resp = NoResp, !.body = None, !.exc = "none",
                               !.asset_bytes = None, !.whole = FALSE, !.pc = "load_isfile"])
    /\ UNCHANGED <<initialized, cache_assets, dirExists, files, clearFailed, createFailed, hadPrior>>

\* a loop that walks album_assets from its end
cache_album_assets_isfile_reversed(t) ==
    /\ task[t].pc = "w_isfile"
    /\ LET r == [task[t] EXCEPT !.asset_id = task[t].ids[Len(task[t].ids) + 1 - task[t].i],
                                !.lookup = "none", !.stale = FALSE, !.cached = None,
                                !.resp = NoResp, !.body = None, !.exc = "none",
                                !.asset_bytes = None, !.whole = FALSE]
       IN  Step(t, IF files[r.asset_id].exists
                     THEN NextId(Outcome(r, "skip"))
                     ELSE [r EXCEPT !.pc = "load_isfile"])
    /\ UNCHANGED <<initialized, cache_assets, dirExists, files, clearFailed, createFailed, hadPrior>>

\* 149-151: the existence check of the loop body, and the call of
\* download_asset for an id that has no file
cache_album_assets_isfile(t) ==
    /\ task[t].pc = "w_isfile"
    /\ LET r == [task[t] EXCEPT !.asset_id = task[t].ids[task[t].i],
                                !.lookup = "none", !.stale = FALSE, !.cached = None,
                                !.resp = NoResp, !.body = None, !.exc = "none",
                                !.asset_bytes = None, !.whole = FALSE]
       IN  Step(t, IF files[r.asset_id].exists
                     THEN NextId(Outcome(r, "skip"))
                     ELSE [r EXCEPT !.pc = "load_isfile"])
    /\ UNCHANGED <<initialized, cache_assets, dirExists, files, clearFailed, createFailed, hadPrior>>

\* load_cached_asset 134-135, 142
load_cached_asset_isfile(t) ==
    /\ task[t].pc = "load_isfile"
    /\ Step(t, IF files[task[t].asset_id].exists
                 THEN [task[t] EXCEPT !.pc = "load_read"]
                 ELSE AfterLookup(task[t], "nofile", None))
    /\ UNCHANGED <<initialized, cache_assets, dirExists, files, clearFailed, createFailed, hadPrior>>

\* a load_cached_asset without the try/except of lines 136-141
load_cached_asset_read_raises(t) ==
    /\ task[t].pc = "load_read"
    /\ \E readOk \in BOOLEAN :
        IF readOk /\ files[task[t].asset_id].exists
          THEN Step(t, AfterLookup([task[t] EXCEPT !.stale = files[task[t].asset_id].prior,
                                                   !.whole = files[task[t].asset_id].whole],
                                   "read", Bytes(files[task[t].asset_id].data)))
          ELSE Step(t, AfterRaise([task[t] EXCEPT !.lookup = "error"], "OSError"))
    /\ UNCHANGED <<initialized, cache_assets, dirExists, files, clearFailed, createFailed, hadPrior>>

\* load_cached_asset 136-142: open and read, or any exception of the two,
\* which is logged and gives None
load_cached_asset_read(t) ==
    /\ task[t].pc = "load_read"
    /\ \E readOk \in BOOLEAN :
        IF readOk /\ files[task[t].asset_id].exists
          THEN Step(t, AfterLookup([task[t] EXCEPT !.stale = files[task[t].asset_id].prior,
                                                   !.whole = files[task[t].asset_id].whole],
                                   "read", Bytes(files[task[t].asset_id].data)))
          ELSE Step(t, AfterLookup(task[t], "error", None))
    /\ UNCHANGED <<initialized, cache_assets, dirExists, files, clearFailed, createFailed, hadPrior>>

\* download_asset 111-126, 129-131: session.get raises, or answers with a
\* status and a content type
download_asset_request(t) ==
    /\ task[t].pc = "dl_request"
    /\ LET r == [task[t] EXCEPT !.reqlog = Append(@, task[t].asset_id)]
       IN  \/ \E e \in TransportErrors \ {"ClientPayloadError"} :
                Step(t, AfterRaise([r EXCEPT !.exc = e], Raised(e)))
           \/ \E status \in Statuses, content_type \in ContentTypes :
                LET q == [r EXCEPT !.resp = [status |-> status, content_type |-> content_type]]
                IN  Step(t, IF status # 200
                              THEN AfterDownload(q, None)
                              ELSE IF content_type \notin ALLOWED_MIME_TYPES
                                     THEN AfterDownload(q, None)
                                     ELSE [q EXCEPT !.pc = "dl_read"])
    /\ UNCHANGED <<initialized, cache_assets, dirExists, files, clearFailed, createFailed, hadPrior>>

\* a download_asset that stores what it has read (a write-through cache)
download_asset_read_store(t) ==
    /\ task[t].pc = "dl_read"
    /\ \E body \in Bodies :
        /\ Step(t, AfterDownload([task[t] EXCEPT !.body = Bytes(body), !.whole = TRUE], Bytes(body)))
        /\ files' = IF dirExists /\ task[t].op = "get"
                      THEN [files EXCEPT ![task[t].asset_id] = File(body)]
                      ELSE files
    /\ UNCHANGED <<initialized, cache_assets, dirExists, clearFailed, createFailed, hadPrior>>

\* download_asset 128-131: response.read() gives the body, or raises
download_asset_read(t) ==
    /\ task[t].pc = "dl_read"
    /\ \/ \E body \in Bodies :
            Step(t, AfterDownload([task[t] EXCEPT !.body = Bytes(body), !.whole = TRUE], Bytes(body)))
       \/ \E e \in TransportErrors \ {"ClientConnectorError"} :
            Step(t, AfterRaise([task[t] EXCEPT !.exc = e], Raised(e)))
    /\ UNCHANGED <<initialized, cache_assets, dirExists, files, clearFailed, createFailed, hadPrior>>

\* the file f after the handle of r has written r.asset_bytes up to byte m,
\* starting at its offset; a handle whose file was unlinked writes to no
\* path of the directory
fwrite(f, r, m) ==
    LET d == WriteAt(f.data, r.off, SubSeq(r.asset_bytes.data, r.off + 1, m))
    IN  IF ~f.exists
          THEN f
          ELSE [f EXCEPT !.data = d,
                         !.whole = \/ (r.whole /\ d = r.asset_bytes.data)
                                   \/ (f.whole /\ d = f.data)]

\* a loop body whose open is outside any try/except
cache_album_assets_open_raises(t) ==
    /\ task[t].pc = "w_open"
    /\ \E openOk \in BOOLEAN :
        IF openOk /\ dirExists
          THEN /\ files' = [files EXCEPT ![task[t].asset_id] = EmptyFile]
               /\ Step(t, [task[t] EXCEPT !.pc = "w_write", !.off = 0])
          ELSE /\ files' = files
               /\ Step(t, AfterRaise(task[t], "OSError"))
    /\ UNCHANGED <<initialized, cache_assets, dirExists, clearFailed, createFailed, hadPrior>>

\* cache_album_assets 153-154, 157-158: open(filename, "wb") creates or
\* truncates the file; without the directory, or on any other error, it
\* raises, which is logged
cache_album_assets_open(t) ==
    /\ task[t].pc = "w_open"
    /\ \E openOk \in BOOLEAN :
        IF openOk /\ dirExists
          THEN /\ files' = [files EXCEPT ![task[t].asset_id] = EmptyFile]
               /\ Step(t, [task[t] EXCEPT !.pc = "w_write", !.off = 0])
          ELSE /\ files' = files
               /\ Step(t, NextId(Outcome(task[t], "wfail")))
    /\ UNCHANGED <<initialized, cache_assets, dirExists, clearFailed, createFailed, hadPrior>>

\* cache_album_assets 156: f.write runs in a thread of the executor; the
\* bytes reach the file front to back, and the file can be seen in between
cache_album_assets_write_part(t) ==
    /\ task[t].pc = "w_write"
    /\ LET a == task[t].asset_id
       IN  \E m \in (task[t].off + 1)..(Len(task[t].asset_bytes.data) - 1) :
             /\ files' = [files EXCEPT ![a] = fwrite(files[a], task[t], m)]
             /\ Step(t, [task[t] EXCEPT !.off = m])
    /\ UNCHANGED <<initialized, cache_assets, dirExists, clearFailed, createFailed, hadPrior>>

\* a loop body without the try/except of lines 153-158
cache_album_assets_write_raises(t) ==
    /\ task[t].pc = "w_write"
    /\ LET a == task[t].asset_id
           v == task[t].asset_bytes
       IN  \/ /\ files' = [files EXCEPT ![a] = fwrite(files[a], task[t], Len(v.data))]
              /\ Step(t, NextId(Outcome([task[t] EXCEPT !.off = 0, !.fetched[a] =
                                             IF task[t].resp # NoResp THEN v ELSE @],
                                        "stored")))
           \/ \E m \in task[t].off..(Len(v.data) - 1) :
                /\ files' = [files EXCEPT ![a] = fwrite(files[a], task[t], m)]
                /\ Step(t, AfterRaise([task[t] EXCEPT !.off = 0], "OSError"))
    /\ UNCHANGED <<initialized, cache_assets, dirExists, clearFailed, createFailed, hadPrior>>

\* cache_album_assets 156-158: the rest of the bytes is written and the file
\* closed; or an error (disk full, ...) is logged and leaves whatever part of
\* the bytes has reached the file
cache_album_assets_write(t) ==
    /\ task[t].pc = "w_write"
    /\ LET a == task[t].asset_id
           v == task[t].asset_bytes
       IN  \/ /\ files' = [files EXCEPT ![a] = fwrite(files[a], task[t], Len(v.data))]
              /\ Step(t, NextId(Outcome([task[t] EXCEPT !.off = 0, !.fetched[a] =
                                             IF task[t].resp # NoResp THEN v ELSE @],
                                        "stored")))
           \/ \E m \in task[t].off..(Len(v.data) - 1) :
                /\ files' = [files EXCEPT ![a] = fwrite(files[a], task[t], m)]
                /\ Step(t, NextId(Outcome([task[t] EXCEPT !.off = 0], "wfail")))
    /\ UNCHANGED <<initialized, cache_assets, dirExists, clearFailed, createFailed, hadPrior>>

TaskStep(t) ==
    \/ download_asset(t)
    \/ cache_album_assets(t)
    \/ cache_album_assets_isfile(t)
    \/ load_cached_asset_isfile(t)
    \/ load_cached_asset_read(t)
    \/ download_asset_request(t)
    \/ download_asset_read(t)
    \/ cache_album_assets_open(t)
    \/ cache_album_assets_write_part(t)
    \/ cache_album_assets_write(t)

\* one call at a time
Next ==
    \/ initialize_asset_cache
    \/ \E t \in SeqTasks : TaskStep(t)

Spec == Init /\ [][Next]_vars

\* the cache directory is removed from outside the program, with all its
\* entries, at any moment of a session
directory_removed ==
    /\ initialized /\ dirExists
    /\ dirExists' = FALSE
    /\ files' = NoFiles
    /\ UNCHANGED <<initialized, cache_assets, clearFailed, createFailed, hadPrior, task>>

\* the calls of that environment have lists of at most MaxEnvLen ids
NextEnv ==
    \/ Next /\ \A t \in Tasks : Len(task'[t].ids) <= MaxEnvLen
    \/ directory_removed

\* one call at a time, in an environment that can remove the directory
SpecEnv == Init /\ [][NextEnv]_vars

\* a session with caching enabled, as initialize_asset_cache leaves it when
\* rmtree and makedirs succeed
InitConc ==
    /\ initialized = TRUE
    /\ cache_assets = TRUE
    /\ dirExists = TRUE
    /\ files = NoFiles
    /\ clearFailed = FALSE
    /\ createFailed = FALSE
    /\ hadPrior = FALSE
    /\ task = [t \in Tasks |-> IdleTask]

\* the calls of one session, interleaved at their awaits; the concurrent
\* calls are about the ids of ConcIds, in lists of at most MaxConcLen ids
NextConc ==
    \E t \in Tasks :
        /\ TaskStep(t)
        /\ task'[t].ids \in ConcLists
        /\ task'[t].asset_id \in ConcIds \cup {""}

SpecConc == InitConc /\ [][NextConc]_vars

\* ------------------------------------------------------------------------
\* Properties
\* ------------------------------------------------------------------------

GetDone(t) == task[t].op = "get" /\ task[t].pc = "done"

WarmDone(t) == task[t].op = "warm" /\ task[t].pc = "done"

\* C1: when, in a cache_album_assets call, the fetch of an id fails with a
\* connection failure, no exception escapes the call, the id has no file, and
\* every id after it in the list has been processed.
C1_PartialFailureIsolation ==
    \A t \in Tasks :
        (WarmDone(t) /\ IsClientError(task[t].exc)) =>
            /\ task[t].raised = "none"
            /\ ~files[task[t].asset_id].exists
            /\ task[t].i > Len(task[t].ids)

\* C2: a download_asset(A) call that found the file of A with content X, and
\* read it without an error, returns exactly X and has issued no remote
\* request, for every content X.
C2_CacheHitPrecedence ==
    \A t \in Tasks :
        (GetDone(t) /\ task[t].files0[task[t].asset_id].exists /\ task[t].lookup = "read") =>
            /\ task[t].result = Bytes(task[t].files0[task[t].asset_id].data)
            /\ task[t].reqlog = << >>

\* C3: after a cache_album_assets call has returned, download_asset(id) for an
\* id whose fetch in that call returned bytes, and whose write did not fail,
\* returns exactly those bytes and issues no remote request (a read error of
\* the lookup set aside).
C3_WarmThenGet ==
    \A t \in Tasks :
        (GetDone(t) /\ task[t].fetched[task[t].asset_id].some /\ task[t].lookup # "error") =>
            /\ task[t].result = task[t].fetched[task[t].asset_id]
            /\ task[t].reqlog = << >>

NoPriorEntry == \A a \in AssetIds : ~(files[a].exists /\ files[a].prior)

NoStaleLookup == \A t \in Tasks : ~task[t].stale

\* C4 (as claimed): once an entry has been written in the current session, no
\* entry of a prior session is left, and no lookup of the current session
\* returns bytes written in a prior session.
C4_ColdStartInvalidation ==
    initialized =>
        /\ (\E a \in AssetIds : files[a].exists /\ ~files[a].prior) => NoPriorEntry
        /\ NoStaleLookup

\* C4 (amended): unless shutil.rmtree failed in initialize_asset_cache (which
\* is logged), the session has no entry of a prior session at any time, so
\* none when cache_album_assets writes, and no lookup returns bytes written in
\* a prior session.
C4_ColdStartInvalidationUnlessRmtreeFails ==
    (initialized /\ ~clearFailed) => (NoPriorEntry /\ NoStaleLookup)

\* C4 witness: the directory held entries when initialize_asset_cache was
\* called, rmtree succeeded, cache_album_assets has written a new entry and a
\* lookup has been served from it.
C4_Witness ==
    /\ initialized /\ hadPrior /\ ~clearFailed
    /\ \E t \in Tasks :
        /\ GetDone(t) /\ task[t].lookup = "read" /\ ~task[t].stale
        /\ files[task[t].asset_id].exists /\ ~files[task[t].asset_id].prior

\* C5 (as claimed): with caching disabled, the cache directory does not
\* exist once initialize_asset_cache has returned, and every download_asset
\* call issues a remote request.
C5_DisabledCache ==
    (initialized /\ ~cache_assets) =>
        /\ ~dirExists
        /\ \A t \in Tasks : GetDone(t) => task[t].reqlog = <<task[t].asset_id>>

\* C5 (amended): with caching disabled, unless shutil.rmtree failed in
\* initialize_asset_cache, the cache directory does not exist and every
\* download_asset call issues a remote request.
C5_DisabledCacheUnlessRmtreeFails ==
    (initialized /\ ~cache_assets /\ ~clearFailed) =>
        /\ ~dirExists
        /\ \A a \in AssetIds : ~files[a].exists
        /\ \A t \in Tasks : GetDone(t) => task[t].reqlog = <<task[t].asset_id>>

\* C5 witness: caching is disabled, the directory of a prior session, with
\* entries, has been removed, and a download_asset call has gone to the remote.
C5_Witness ==
    /\ initialized /\ ~cache_assets /\ hadPrior /\ ~clearFailed /\ ~dirExists
    /\ \E t \in Tasks : GetDone(t) /\ task[t].reqlog = <<task[t].asset_id>>

\* C6: a cache_album_assets call never fetches an id whose file existed when
\* the call began, and no step of the call changes such a file; so a second
\* warm([A,B]) issues no fetch and leaves the two files of the first.
C6_WarmIdempotent ==
    /\ [](\A t \in Tasks :
            task[t].op = "warm" =>
                \A a \in AssetIds :
                    task[t].files0[a].exists =>
                        \A k \in 1..Len(task[t].reqlog) : task[t].reqlog[k] # a)
    /\ [][\A t \in Tasks :
            (task'[t] # task[t] /\ task[t].op = "warm" /\ InFlight(t)) =>
                \A a \in AssetIds :
                    task[t].files0[a].exists => files'[a] = files[a]]_vars

\* C6 witness: a second warm([A,B]) has returned; both files were fetched and
\* stored earlier in the session, nothing was fetched now, the files are the same.
C6_Witness ==
    \E t \in Tasks :
        /\ WarmDone(t) /\ task[t].raised = "none" /\ cache_assets
        /\ task[t].ids = <<"A", "B">>
        /\ \A a \in AssetIds :
            /\ task[t].files0[a].exists /\ Truthy(task[t].fetched[a])
            /\ files[a] = File(task[t].fetched[a].data)
        /\ task[t].reqlog = << >>

\* C7: with caching enabled and no file for A, download_asset(A) issues
\* exactly one remote request, for A, and returns what the remote delivered:
\* the body that was read, or None when the response was turned down; it
\* returns nothing when the request failed.
C7_MissThenFetch ==
    \A t \in Tasks :
        (GetDone(t) /\ cache_assets /\ ~task[t].files0[task[t].asset_id].exists) =>
            /\ task[t].reqlog = <<task[t].asset_id>>
            /\ task[t].raised = "none" => task[t].result = task[t].body
            /\ task[t].raised # "none" => task[t].result = None

\* C7 witness: a miss with caching enabled that returned the remote's bytes.
C7_Witness ==
    \E t \in Tasks :
        /\ GetDone(t) /\ cache_assets /\ dirExists
        /\ ~task[t].files0[task[t].asset_id].exists
        /\ task[t].resp.status = 200 /\ task[t].result = Bytes(<<7, 9>>)

IsInitialize == initialized' /\ \A t \in Tasks : task'[t] = IdleTask

\* C8: no step of a download_asset call made by a caller changes the cache
\* directory or any file in it; a file appears only in the open of
\* cache_album_assets, and disappears only in initialize_asset_cache.
C8_GetLeavesCacheUnchanged ==
    [][/\ \A t \in Tasks :
            (task'[t] # task[t] /\ task'[t].op = "get") =>
                (files' = files /\ dirExists' = dirExists)
       /\ \A a \in AssetIds :
            /\ (~files[a].exists /\ files'[a].exists) =>
                   \E t \in Tasks : /\ task[t].op = "warm" /\ task[t].pc = "w_open"
                                    /\ task[t].asset_id = a /\ task'[t] # task[t]
            /\ (files[a].exists /\ ~files'[a].exists) => IsInitialize]_vars

\* C8 witness: a download_asset call has returned bytes of the remote for an
\* id without a file, next to the file of another id; the cache is as before.
C8_Witness ==
    \E t \in Tasks :
        /\ GetDone(t) /\ cache_assets /\ dirExists
        /\ task[t].lookup = "nofile" /\ Truthy(task[t].result)
        /\ ~files[task[t].asset_id].exists
        /\ \E b \in AssetIds : files[b].exists

\* C9: for a response that was received, download_asset returns the body if
\* and only if the status is 200 and the content type is image/png or
\* image/jpeg; for any other status or content type it returns None and
\* raises nothing.
C9_StatusAndContentTypeGate ==
    \A t \in Tasks :
        (GetDone(t) /\ task[t].resp # NoResp /\ task[t].exc = "none") =>
            IF task[t].resp.status = 200
               /\ task[t].resp.content_type \in {"image/png", "image/jpeg"}
              THEN task[t].result.some /\ task[t].result = task[t].body
              ELSE task[t].result = None /\ task[t].raised = "none"

\* C9 witness: a 200 response of type application/pdf gave None.
C9_Witness ==
    \E t \in Tasks :
        /\ GetDone(t) /\ task[t].exc = "none"
        /\ task[t].resp = [status |-> 200, content_type |-> "application/pdf"]
        /\ task[t].result = None

\* C10: a download_asset call whose remote request failed at transport level
\* ends in CannotConnect, with no result.
C10_ConnectionFailuresAreLoud ==
    \A t \in Tasks :
        (GetDone(t) /\ task[t].exc # "none") =>
            (task[t].raised = "CannotConnect" /\ task[t].result = None)

\* C11: when the file of A exists but opening or reading it fails,
\* load_cached_asset gives None, download_asset goes on to the remote request
\* and ends with its outcome (the body, None, or the failure of the request);
\* no filesystem error reaches the caller.
C11_ReadErrorIsMiss ==
    \A t \in Tasks :
        /\ task[t].raised \in {"none", "CannotConnect", "TimeoutError"}
        /\ task[t].lookup = "error" =>
              /\ task[t].cached = None
              /\ task[t].pc \in {"dl_request", "dl_read", "w_open", "w_write", "w_isfile", "done"}
              /\ GetDone(t) =>
                    /\ task[t].reqlog = <<task[t].asset_id>>
                    /\ task[t].raised = "none" => task[t].result = task[t].body
                    /\ task[t].raised # "none" =>
                          (task[t].exc # "none" /\ task[t].result = None)

\* C11 witness: the file of A is there, its read failed, and download_asset
\* returned the bytes of the remote.
C11_Witness ==
    \E t \in Tasks :
        /\ GetDone(t) /\ task[t].lookup = "error"
        /\ files[task[t].asset_id].exists
        /\ task[t].resp.status = 200 /\ Truthy(task[t].result)

\* C14: with cache_assets false, cache_album_assets(album_assets) returns at
\* once for any list: no request, no cache lookup, and no step of the call
\* touches the files or the directory.
C14_WarmDisabledNoOp ==
    /\ [](\A t \in Tasks :
            (task[t].op = "warm" /\ ~cache_assets) =>
                /\ task[t].pc = "done" /\ task[t].raised = "none"
                /\ task[t].reqlog = << >> /\ task[t].lookup = "none"
                /\ task[t].asset_id = "" /\ task[t].i = 0
                /\ files = task[t].files0)
    /\ [][\A t \in Tasks :
            (task'[t].op = "warm" /\ task'[t] # task[t] /\ ~cache_assets) =>
                (files' = files /\ dirExists' = dirExists)]_vars

\* C14 witness: a call with a non-empty list has returned while caching is
\* disabled.
C14_Witness ==
    \E t \in Tasks : WarmDone(t) /\ ~cache_assets /\ Len(task[t].ids) = MaxWarmLen

Min(a, b) == IF a < b THEN a ELSE b

\* the requests of r were issued for positions of r.ids in increasing order
InListOrder(r) ==
    \E f \in [1..Len(r.reqlog) -> 1..Min(r.i, Len(r.ids))] :
        /\ \A k \in 1..Len(r.reqlog) : r.ids[f[k]] = r.reqlog[k]
        /\ \A k \in 1..Len(r.reqlog) : \A l \in 1..Len(r.reqlog) : k < l => f[k] < f[l]
        /\ r.pc = "dl_read" => f[Len(r.reqlog)] = r.i

\* C16: within one cache_album_assets call the requests go out in the order
\* of album_assets, one position at a time: the call works on album_assets[i]
\* only, the request in flight is the one of position i, and every request
\* made so far belongs to a position up to i, in increasing order.
C16_SequentialOrderedWarming ==
    \A t \in Tasks :
        task[t].op = "warm" =>
            /\ InListOrder(task[t])
            /\ Len(task[t].reqlog) <= Min(task[t].i, Len(task[t].ids))
            /\ task[t].pc \in {"load_isfile", "load_read", "dl_request", "dl_read",
                               "w_open", "w_write"}
                  => (task[t].i \in 1..Len(task[t].ids)
                      /\ task[t].asset_id = task[t].ids[task[t].i])

\* C16 witness: a call over two different ids has fetched and stored both.
C16_Witness ==
    \E t \in Tasks :
        /\ WarmDone(t) /\ task[t].ids = <<"A", "B">> /\ task[t].reqlog = <<"A", "B">>
        /\ Truthy(task[t].fetched["A"]) /\ Truthy(task[t].fetched["B"])

\* C12: a cache_album_assets call on an enabled cache in which no request
\* failed raises nothing, whatever open or write raised: it ends the loop
\* body of every position of album_assets, and every position whose write
\* succeeded has its file, with the bytes fetched for it.
C12_WriteFailureIsolation ==
    \A t \in Tasks :
        /\ (task[t].op = "warm" /\ task[t].exc = "none") => task[t].raised = "none"
        /\ (WarmDone(t) /\ cache_assets /\ task[t].exc = "none") =>
              /\ Len(task[t].out) = Len(task[t].ids)
              /\ \A k \in 1..Len(task[t].out) :
                    task[t].out[k] = "stored" =>
                        /\ files[task[t].ids[k]].exists
                        /\ files[task[t].ids[k]].data = task[t].fetched[task[t].ids[k]].data
                        /\ task[t].ids[k] \in {task[t].reqlog[j] : j \in 1..Len(task[t].reqlog)}

\* C12 witness: the write of the first id failed, the second id was fetched
\* and stored all the same.
C12_Witness ==
    \E t \in Tasks :
        /\ WarmDone(t) /\ task[t].raised = "none"
        /\ task[t].ids = <<"A", "B">>
        /\ task[t].out = <<"wfail", "stored">>
        /\ task[t].reqlog = <<"A", "B">>

\* C17: whenever no write of cache_album_assets is in progress, every file
\* of the current session in the cache directory holds all the bytes of a
\* response of the remote; a write that failed has left no file, neither an
\* empty nor a truncated one.
C17_CacheContentIntegrity ==
    (\A t \in Tasks : task[t].pc # "w_write") =>
        \A a \in AssetIds :
            (files[a].exists /\ ~files[a].prior) => files[a].whole

\* C15: while caching is enabled and the cache directory does not exist
\* (os.makedirs failed, or the directory was removed later), the session is
\* initialized all the same, the directory holds no file, every step of
\* load_cached_asset that ends the lookup gives None, no step but those of
\* the next initialize_asset_cache creates a file or the directory, and no
\* call raises a filesystem error.
C15_MissingDirectoryTolerance ==
    /\ []((cache_assets /\ ~dirExists) =>
            /\ initialized
            /\ \A a \in AssetIds : ~files[a].exists
            /\ \A t \in Tasks : task[t].raised \in {"none", "CannotConnect", "TimeoutError"})
    /\ [][(cache_assets /\ ~dirExists /\ ~IsInitialize) =>
            /\ files' = files /\ dirExists' = dirExists
            /\ \A t \in Tasks :
                  (task[t].pc \in {"load_isfile", "load_read"} /\ task'[t] # task[t]) =>
                      /\ task'[t].cached = None
                      /\ task'[t].lookup \in {"nofile", "error"}
                      /\ task'[t].pc = "dl_request"]_vars

\* C15 witness: the directory was created, a first id was stored, the
\* directory was removed, and the call went on to fetch the second id, could
\* not store it and returned.
C15_Witness ==
    \E t \in Tasks :
        /\ cache_assets /\ ~dirExists /\ ~createFailed
        /\ WarmDone(t) /\ task[t].raised = "none"
        /\ task[t].out = <<"stored", "wfail">>
        /\ task[t].reqlog = task[t].ids

\* C15 second witness state: os.makedirs failed and a lookup gave None
C15_WitnessCreateFailed ==
    \E t \in Tasks :
        /\ cache_assets /\ ~dirExists /\ createFailed
        /\ GetDone(t) /\ task[t].lookup = "nofile" /\ task[t].cached = None

\* C13: a load_cached_asset that reads the file of A while a
\* cache_album_assets call is between its open and the end of its write of
\* that file gives all the bytes of a response, or nothing the caller takes
\* for a hit; it never hands a truncated file to its caller as the asset.
C13_NoPartialFileExposure ==
    [][\A t \in Tasks : \A u \in Tasks \ {t} :
          (/\ task[t].pc = "load_read"
           /\ task[u].pc = "w_write" /\ task[u].asset_id = task[t].asset_id
           /\ task'[t].lookup = "read"
           /\ Truthy(task'[t].cached))
              => task'[t].whole]_vars

\* C18: two cache_album_assets calls that both began before the file of a
\* common id was there, and in which every request answered with bytes and
\* every open and write succeeded, leave, once both have returned, a file
\* for that id that holds all the bytes of a response.
C18_ConcurrentWarmsConverge ==
    \A t \in Tasks : \A u \in Tasks \ {t} :
        (/\ WarmDone(t) /\ WarmDone(u)
         /\ task[t].raised = "none" /\ task[u].raised = "none"
         /\ \A k \in 1..Len(task[t].out) : task[t].out[k] \in {"skip", "stored"}
         /\ \A k \in 1..Len(task[u].out) : task[u].out[k] \in {"skip", "stored"})
            => \A a \in AssetIds :
                  (/\ a \in {task[t].ids[k] : k \in 1..Len(task[t].ids)}
                   /\ a \in {task[u].ids[k] : k \in 1..Len(task[u].ids)}
                   /\ ~task[t].files0[a].exists /\ ~task[u].files0[a].exists)
                      => (files[a].exists /\ files[a].whole)

\* C19: once a download_asset call has returned bytes of the file of A that
\* its load_cached_asset read, every load_cached_asset that reads the file
\* of A later, without a read error, gives the same bytes (or, a weaker
\* demand, both are all the bytes of a response).
C19_StableHits ==
    [][\A t \in Tasks : \A u \in Tasks \ {t} :
          (/\ GetDone(u) /\ task[u].lookup = "read" /\ Truthy(task[u].cached)
           /\ task[t].pc = "load_read" /\ task[t].asset_id = task[u].asset_id
           /\ task'[t].lookup = "read")
              => \/ task'[t].cached = task[u].cached
                 \/ (task'[t].whole /\ task[u].whole)]_vars

====
